---- MODULE Spec2Model ----
(***************************************************************************)
(* The client-side request/response correlation core of MaidNodeNfs:       *)
(* the facade operations of maid_node_nfs.cc, the per-response-kind        *)
(* pending tables (routing::Timer) they register in, the quorum            *)
(* aggregator (nfs::OpData) behind every entry and the inbound             *)
(* demultiplexer of MaidNodeService; beside it the two free functions      *)
(* that consume responses on their own, the account-creation flow of       *)
(* maid_node_nfs.cc and HandleDeleteResponse of utils.h.                   *)
(***************************************************************************)
EXTENDS Integers, Sequences, FiniteSets, Bags, TLC

(***************************************************************************)
(* Bounds of the model.  group_size stands for                             *)
(* routing::Parameters::group_size, which the routing library sets; every  *)
(* threshold and expected count of the call sites is derived from it.      *)
(* MaxCalls bounds the facade calls, MaxTimeout the timeout a caller may   *)
(* pass, MaxResponses the responses answering dispatched requests and      *)
(* MaxLate the responses that reach one call after its entry is gone.      *)
(***************************************************************************)
group_size == 3
MaxCalls == 2
MaxTimeout == 1
MaxResponses == 5
MaxLate == 2

\* The longest list of serialised responses handed to HandleDeleteResponse.
MaxMessages == 3

(***************************************************************************)
(* Vocabulary.                                                             *)
(***************************************************************************)
Revisions == {"earlier", "later"}

Timers == {"get_timer_", "create_account_timer_", "register_pmid_timer_",
           "pmid_health_timer_"}

QuorumOps == {"CreateAccount", "RegisterPmid", "GetPmidHealth"}

FireAndForgetOps == {"RemoveAccount", "UnregisterPmid"}

\* The earlier revision implements CreateAccount only (the other four
\* operations are assert(0)); the later one implements all five.
Implemented(rev) ==
  IF rev = "earlier" THEN {"CreateAccount"} ELSE QuorumOps \cup FireAndForgetOps

\* What one response carries once decoded: success, a generic failure or the
\* specific business error.
Payloads == {"success", "unknown", "account_already_exists"}

TaskIds == 1..MaxCalls

VARIABLES
  revision,      \* which revision of maid_node_nfs.cc is running
  now,           \* the steady clock
  new_task_id_,  \* per timer: the counter behind NewTaskId
  tasks_,        \* per timer: task id -> pending entry
  calls,         \* the facade calls made so far, each with its promise
  sends,         \* bag of the requests the substrate accepted
  responses,     \* number of inbound response messages handled so far
  account_flow,  \* the free function CreateAccount: its future and progress
  delete_response  \* HandleDeleteResponse: its arguments, locals and progress

vars == <<revision, now, new_task_id_, tasks_, calls, sends, responses,
          account_flow, delete_response>>

(***************************************************************************)
(* The call sites of maid_node_nfs.cc.                                     *)
(***************************************************************************)
\* OpData's first constructor argument.
SuccessesRequired(op) == group_size - 1

\* A call site that expects group_size - 1 responses for every operation.
ExpectedCountLowered(op) == group_size - 1

\* AddTask's expected response count.
ExpectedCount(op) ==
  IF op = "CreateAccount" THEN group_size * 2 ELSE group_size - 1

\* The timer whose NewTaskId() the operation calls.
TaskIdSource(rev, op) ==
  IF rev = "earlier" THEN "get_timer_"
  ELSE IF op = "GetPmidHealth" THEN "pmid_health_timer_"
  ELSE "create_account_timer_"

\* Call sites that all register in create_account_timer_.
TaskTimerShared(op) == "create_account_timer_"

\* A GetPmidHealth pasted from RegisterPmid that still registers in
\* register_pmid_timer_.
TaskTimerPasted(op) ==
  CASE op = "CreateAccount" -> "create_account_timer_"
    [] op = "RegisterPmid" -> "register_pmid_timer_"
    [] op = "GetPmidHealth" -> "register_pmid_timer_"

\* The timer the operation calls AddTask on.
TaskTimer(op) ==
  CASE op = "CreateAccount" -> "create_account_timer_"
    [] op = "RegisterPmid" -> "register_pmid_timer_"
    [] op = "GetPmidHealth" -> "pmid_health_timer_"

\* A call site that drops the caller's timeout.
TaskTimeoutDropped(timeout) == 0

\* The timeout argument handed to AddTask.
TaskTimeout(timeout) == timeout

(***************************************************************************)
(* nfs::OpData, the quorum aggregator of one operation.                    *)
(***************************************************************************)
RECURSIVE Successes(_)
Successes(acc) ==
  IF acc = <<>> THEN 0
  ELSE (IF Head(acc) = "success" THEN 1 ELSE 0) + Successes(Tail(acc))

Failures(acc) == Len(acc) - Successes(acc)

\* An aggregator that carries the first error it sees.
MostInformativeFirst(acc) ==
  IF \E i \in 1..Len(acc) : acc[i] # "success"
  THEN acc[CHOOSE i \in 1..Len(acc) :
             acc[i] # "success" /\ \A j \in 1..(i - 1) : acc[j] = "success"]
  ELSE "unknown"

\* The error a Failure carries: the specific business error when one was
\* observed, the generic one otherwise.
MostInformative(acc) ==
  IF \E i \in 1..Len(acc) : acc[i] = "account_already_exists"
  THEN "account_already_exists"
  ELSE "unknown"

\* An aggregator that never gives up before the deadline.
ClassifyNoEarlyFailure(acc, successes_required, expected) ==
  IF Successes(acc) >= successes_required THEN "Success" ELSE "Pending"

\* The verdict over the responses seen so far.
Classify(acc, successes_required, expected) ==
  IF Successes(acc) >= successes_required THEN "Success"
  ELSE IF Successes(acc) + (expected - Len(acc)) < successes_required
       THEN MostInformative(acc)
       ELSE "Pending"

\* The verdict forced when the deadline is reached.
FinalVerdict(acc, successes_required, expected) ==
  IF Classify(acc, successes_required, expected) = "Pending"
  THEN "timed_out"
  ELSE Classify(acc, successes_required, expected)

\* HandleCreateAccountResult and its siblings: the terminal callback, which
\* sets the value or the exception of the promise of one call.
SetPromise(call, verdict) ==
  [call EXCEPT !.resolutions = @ + 1,
               !.outcome = IF @ = "none" THEN verdict ELSE @]

(***************************************************************************)
(* routing::Timer, the pending table of one response kind.                 *)
(***************************************************************************)
EmptyTable == [id \in {} |-> 0]

Insert(table, id, entry) ==
  [x \in DOMAIN table \cup {id} |-> IF x = id THEN entry ELSE table[x]]

Remove(table, ids) == [x \in DOMAIN table \ ids |-> table[x]]

\* NewTaskId: the next value of the timer's counter.
NewTaskId(t) == new_task_id_[t] + 1

\* The calls whose entry was registered in timer t under id.
RegisteredAs(t, id) ==
  {c \in DOMAIN calls : /\ calls[c].op \in QuorumOps
                        /\ calls[c].pc \in {"Send", "done",
                                            "TransportUnavailable"}
                        /\ TaskTimer(calls[c].op) = t
                        /\ calls[c].task_id = id}

\* Every delivery is recorded against the call it is addressed to: in
\* arrival order while the entry of the call is live, counted per payload
\* once it is gone.
Logged(t, id, payload) ==
  [c \in DOMAIN calls |->
     IF c \notin RegisteredAs(t, id) THEN calls[c]
     ELSE IF id \in DOMAIN tasks_[t] /\ tasks_[t][id].op_data.call = c
          THEN [calls[c] EXCEPT !.accumulated = Append(@, payload)]
          ELSE [calls[c] EXCEPT !.late[payload] = @ + 1]]

\* A table whose entries share one accumulator: a response that leaves its
\* entry pending is appended to every entry of the timer.
DeliverShared(t, id, payload) ==
  IF id \notin DOMAIN tasks_[t]
  THEN /\ tasks_' = tasks_
       /\ calls' = Logged(t, id, payload)
  ELSE LET e == tasks_[t][id]
           acc == Append(e.accumulator, payload)
           v == Classify(acc, e.op_data.successes_required,
                         e.expected_response_count)
           logged == Logged(t, id, payload)
       IN IF v = "Pending"
          THEN /\ tasks_' = [tasks_ EXCEPT ![t] =
                               [x \in DOMAIN @ |->
                                  [@[x] EXCEPT !.accumulator =
                                                 Append(@, payload)]]]
               /\ calls' = logged
          ELSE /\ tasks_' = [tasks_ EXCEPT ![t] = Remove(@, {id})]
               /\ calls' = [logged EXCEPT ![e.op_data.call] =
                                SetPromise(@, v)]

\* A table that opens an entry for a response it does not know.
DeliverReopens(t, id, payload) ==
  IF id \notin DOMAIN tasks_[t]
  THEN /\ tasks_' = [tasks_ EXCEPT ![t] =
                       Insert(@, id, [expected_response_count |-> group_size,
                                      deadline |-> now + 1,
                                      accumulator |-> <<payload>>,
                                      op_data |-> [successes_required |-> group_size,
                                                   call |-> 1]])]
       /\ calls' = Logged(t, id, payload)
  ELSE LET e == tasks_[t][id]
           acc == Append(e.accumulator, payload)
           v == Classify(acc, e.op_data.successes_required,
                         e.expected_response_count)
           logged == Logged(t, id, payload)
       IN IF v = "Pending"
          THEN /\ tasks_' = [tasks_ EXCEPT ![t][id].accumulator = acc]
               /\ calls' = logged
          ELSE /\ tasks_' = [tasks_ EXCEPT ![t] = Remove(@, {id})]
               /\ calls' = [logged EXCEPT ![e.op_data.call] =
                                SetPromise(@, v)]

\* Deliver(id, payload) on timer t.
Deliver(t, id, payload) ==
  IF id \notin DOMAIN tasks_[t]
  THEN /\ tasks_' = tasks_
       /\ calls' = Logged(t, id, payload)
  ELSE LET e == tasks_[t][id]
           acc == Append(e.accumulator, payload)
           v == Classify(acc, e.op_data.successes_required,
                         e.expected_response_count)
           logged == Logged(t, id, payload)
       IN IF v = "Pending"
          THEN /\ tasks_' = [tasks_ EXCEPT ![t][id].accumulator = acc]
               /\ calls' = logged
          ELSE /\ tasks_' = [tasks_ EXCEPT ![t] = Remove(@, {id})]
               /\ calls' = [logged EXCEPT ![e.op_data.call] =
                                SetPromise(@, v)]

\* The entries of timer t whose deadline has passed.
Due(t) == {id \in DOMAIN tasks_[t] : tasks_[t][id].deadline <= now}

\* The call whose promise the entry id of timer t resolves.
Owner(t, id) == tasks_[t][id].op_data.call

(***************************************************************************)
(* The facade operations of MaidNodeNfs.                                   *)
(***************************************************************************)
NewCall(op, id, timeout) ==
  [op |-> op, pc |-> "AddTask", task_id |-> id, timeout |-> timeout,
   registered |-> 0, dispatched |-> 0, outcome |-> "none", resolutions |-> 0,
   accumulated |-> <<>>, late |-> [p \in Payloads |-> 0]]

\* The request one facade operation hands to the dispatcher.
Request(op, id) == [request |-> op, task_id |-> id]

\* A quorum-correlated operation up to NewTaskId(): the promise and the
\* aggregator are made and the task id is drawn.
Begin(op) ==
  /\ op \in QuorumOps \cap Implemented(revision)
  /\ Len(calls) < MaxCalls
  /\ \E timeout \in 1..MaxTimeout :
       calls' = Append(calls, NewCall(op, NewTaskId(TaskIdSource(revision, op)),
                                      timeout))
  /\ new_task_id_' = [new_task_id_ EXCEPT ![TaskIdSource(revision, op)] =
                        NewTaskId(TaskIdSource(revision, op))]
  /\ UNCHANGED <<revision, now, tasks_, sends, responses>>
  /\ UNCHANGED <<account_flow, delete_response>>

\* A call site whose functor captures one promise shared by every call.
TaskOfSharedPromise(c) ==
  [expected_response_count |-> ExpectedCount(calls[c].op),
   deadline |-> now + TaskTimeout(calls[c].timeout),
   accumulator |-> <<>>,
   op_data |-> [successes_required |-> SuccessesRequired(calls[c].op),
                call |-> 1]]

\* The entry AddTask is asked to register for call c.
TaskOf(c) ==
  [expected_response_count |-> ExpectedCount(calls[c].op),
   deadline |-> now + TaskTimeout(calls[c].timeout),
   accumulator |-> <<>>,
   op_data |-> [successes_required |-> SuccessesRequired(calls[c].op),
                call |-> c]]

\* An AddTask that stores the new entry over the one already there.
AddTaskOverwrites(c) ==
  /\ c \in DOMAIN calls
  /\ calls[c].pc = "AddTask"
  /\ tasks_' = [tasks_ EXCEPT ![TaskTimer(calls[c].op)] =
                   Insert(@, calls[c].task_id, TaskOf(c))]
  /\ calls' = [calls EXCEPT ![c].pc = "Send", ![c].registered = now]
  /\ UNCHANGED <<revision, now, new_task_id_, sends, responses>>
  /\ UNCHANGED <<account_flow, delete_response>>

\* AddTask(timeout, functor, expected count, task_id): throws when the id is
\* already in use in the timer.
AddTask(c) ==
  /\ c \in DOMAIN calls
  /\ calls[c].pc = "AddTask"
  /\ IF calls[c].task_id \in DOMAIN tasks_[TaskTimer(calls[c].op)]
     THEN /\ calls' = [calls EXCEPT ![c].pc = "threw"]
          /\ UNCHANGED tasks_
     ELSE /\ tasks_' = [tasks_ EXCEPT ![TaskTimer(calls[c].op)] =
                          Insert(@, calls[c].task_id, TaskOf(c))]
          /\ calls' = [calls EXCEPT ![c].pc = "Send",
                                    ![c].registered = now]
  /\ UNCHANGED <<revision, now, new_task_id_, sends, responses>>
  /\ UNCHANGED <<account_flow, delete_response>>

\* An operation that hands its request to the dispatcher before it calls
\* AddTask.
SendBeforeAddTask(c) ==
  /\ c \in DOMAIN calls
  /\ calls[c].pc = "AddTask"
  /\ calls[c].dispatched = 0
  /\ sends' = sends (+) SetToBag({Request(calls[c].op, calls[c].task_id)})
  /\ calls' = [calls EXCEPT ![c].dispatched = 1]
  /\ UNCHANGED <<revision, now, new_task_id_, tasks_, responses>>
  /\ UNCHANGED <<account_flow, delete_response>>

\* An operation that catches TransportUnavailable and calls the dispatcher
\* a second time.
SendRetrying(c) ==
  /\ c \in DOMAIN calls
  /\ calls[c].pc = "Send"
  /\ \/ /\ sends' = sends (+) SetToBag({Request(calls[c].op, calls[c].task_id)})
        /\ calls' = [calls EXCEPT ![c].pc = "done", ![c].dispatched = @ + 1]
     \/ /\ sends' = sends
        /\ calls' = [calls EXCEPT
                       ![c].pc = IF calls[c].dispatched = 0
                                 THEN "Send" ELSE "TransportUnavailable",
                       ![c].dispatched = @ + 1]
  /\ UNCHANGED <<revision, now, new_task_id_, tasks_, responses>>
  /\ UNCHANGED <<account_flow, delete_response>>

\* dispatcher_.Send...Request(task_id, ...): either the substrate accepts
\* the request and the future is returned, or the dispatcher signals
\* TransportUnavailable, which leaves the operation as an exception since
\* nothing in it catches.
Send(c) ==
  /\ c \in DOMAIN calls
  /\ calls[c].pc = "Send"
  /\ \/ /\ sends' = sends (+) SetToBag({Request(calls[c].op, calls[c].task_id)})
        /\ calls' = [calls EXCEPT ![c].pc = "done", ![c].dispatched = @ + 1]
     \/ /\ sends' = sends
        /\ calls' = [calls EXCEPT ![c].pc = "TransportUnavailable",
                                  ![c].dispatched = @ + 1]
  /\ UNCHANGED <<revision, now, new_task_id_, tasks_, responses>>
  /\ UNCHANGED <<account_flow, delete_response>>

\* A RemoveAccount and UnregisterPmid that tag their request with a task id
\* drawn from create_account_timer_, as the quorum-correlated operations do.
FireAndForgetCorrelated(op) ==
  /\ op \in FireAndForgetOps \cap Implemented(revision)
  /\ Len(calls) < MaxCalls
  /\ sends' = sends (+)
                SetToBag({Request(op, NewTaskId("create_account_timer_"))})
  /\ calls' = Append(calls,
                     [NewCall(op, NewTaskId("create_account_timer_"), 0)
                        EXCEPT !.pc = "done", !.dispatched = 1])
  /\ new_task_id_' = [new_task_id_ EXCEPT !["create_account_timer_"] =
                        NewTaskId("create_account_timer_")]
  /\ UNCHANGED <<revision, now, tasks_, responses>>
  /\ UNCHANGED <<account_flow, delete_response>>

\* RemoveAccount and UnregisterPmid: one dispatcher call and nothing else.
FireAndForget(op) ==
  /\ op \in FireAndForgetOps \cap Implemented(revision)
  /\ Len(calls) < MaxCalls
  /\ \/ /\ sends' = sends (+) SetToBag({Request(op, 0)})
        /\ calls' = Append(calls, [NewCall(op, 0, 0) EXCEPT
                                     !.pc = "done", !.dispatched = 1])
     \/ /\ sends' = sends
        /\ calls' = Append(calls, [NewCall(op, 0, 0) EXCEPT
                                     !.pc = "TransportUnavailable",
                                     !.dispatched = 1])
  /\ UNCHANGED <<revision, now, new_task_id_, tasks_, responses>>
  /\ UNCHANGED <<account_flow, delete_response>>

(***************************************************************************)
(* MaidNodeService, the inbound demultiplexer.                             *)
(***************************************************************************)
ResponseKinds == {"CreateAccountResponse", "RegisterPmidResponse",
                  "PmidHealthResponse"}

\* The response kind the peers answer a request with.
ResponseTo(op) ==
  CASE op = "CreateAccount" -> "CreateAccountResponse"
    [] op = "RegisterPmid" -> "RegisterPmidResponse"
    [] op = "GetPmidHealth" -> "PmidHealthResponse"

\* A service whose PmidHealthResponse overload delivers to
\* create_account_timer_.
ResponseTimerCrossed(kind) ==
  CASE kind = "CreateAccountResponse" -> "create_account_timer_"
    [] kind = "RegisterPmidResponse" -> "register_pmid_timer_"
    [] kind = "PmidHealthResponse" -> "create_account_timer_"

\* The timer member each HandleMessage overload delivers to.
ResponseTimer(kind) ==
  CASE kind = "CreateAccountResponse" -> "create_account_timer_"
    [] kind = "RegisterPmidResponse" -> "register_pmid_timer_"
    [] kind = "PmidHealthResponse" -> "pmid_health_timer_"

\* A response answers a request that was dispatched.
Answers(kind, id) ==
  \E m \in BagToSet(sends) :
     m.request \in QuorumOps /\ ResponseTo(m.request) = kind /\ m.task_id = id

\* A response whose id no call has ever been given in that timer.
Stray(kind, id) ==
  \A c \in DOMAIN calls :
     calls[c].op \in QuorumOps =>
       ~(TaskTimer(calls[c].op) = ResponseTimer(kind) /\ calls[c].task_id = id)

\* The responses that reached call c after its entry was gone.
Late(c) == calls[c].late["success"] + calls[c].late["unknown"]
           + calls[c].late["account_already_exists"]

\* HandleMessage(message, sender, receiver) for one response kind.  The
\* service of the earlier revision is constructed without
\* create_account_timer_ and delivers nothing to it.
HandleMessage(kind, id, payload) ==
  /\ revision = "later"
  /\ responses < MaxResponses
  /\ id \notin DOMAIN tasks_[ResponseTimer(kind)] =>
       \A c \in RegisteredAs(ResponseTimer(kind), id) : Late(c) < MaxLate
  /\ Answers(kind, id) \/ Stray(kind, id)
  /\ responses' = IF Answers(kind, id) THEN responses + 1 ELSE responses
  /\ Deliver(ResponseTimer(kind), id, payload)
  /\ UNCHANGED <<revision, now, new_task_id_, sends>>
  /\ UNCHANGED <<account_flow, delete_response>>

(***************************************************************************)
(* The clock and the expiry sweep.                                         *)
(***************************************************************************)
\* Time passes.  Only a live entry observes the clock, so the clock is
\* advanced only while some entry is still waiting for its deadline.
Tick ==
  /\ \E t \in Timers : \E id \in DOMAIN tasks_[t] : tasks_[t][id].deadline > now
  /\ now' = now + 1
  /\ UNCHANGED <<revision, new_task_id_, tasks_, calls, sends, responses>>
  /\ UNCHANGED <<account_flow, delete_response>>

\* A sweep that, once some entry is due, clears the whole table and times
\* out the entries whose deadline is still ahead as well.
ExpireDueAll(t) ==
  /\ Due(t) # {}
  /\ tasks_' = [tasks_ EXCEPT ![t] = EmptyTable]
  /\ calls' = [c \in DOMAIN calls |->
                 IF \E id \in DOMAIN tasks_[t] : Owner(t, id) = c
                 THEN LET id == CHOOSE x \in DOMAIN tasks_[t] : Owner(t, x) = c
                          e == tasks_[t][id]
                      IN SetPromise(calls[c],
                                    FinalVerdict(e.accumulator,
                                                 e.op_data.successes_required,
                                                 e.expected_response_count))
                 ELSE calls[c]]
  /\ UNCHANGED <<revision, now, new_task_id_, sends, responses>>
  /\ UNCHANGED <<account_flow, delete_response>>

\* A sweep that finalises only the due entries that have a verdict and
\* leaves the pending ones in the table.
ExpireDueDecidedOnly(t) ==
  LET decided == {id \in Due(t) :
                    Classify(tasks_[t][id].accumulator,
                             tasks_[t][id].op_data.successes_required,
                             tasks_[t][id].expected_response_count) # "Pending"}
  IN /\ decided # {}
     /\ tasks_' = [tasks_ EXCEPT ![t] = Remove(@, decided)]
     /\ calls' = [c \in DOMAIN calls |->
                    IF \E id \in decided : Owner(t, id) = c
                    THEN LET id == CHOOSE x \in decided : Owner(t, x) = c
                             e == tasks_[t][id]
                         IN SetPromise(calls[c],
                                       FinalVerdict(e.accumulator,
                                                    e.op_data.successes_required,
                                                    e.expected_response_count))
                    ELSE calls[c]]
     /\ UNCHANGED <<revision, now, new_task_id_, sends, responses>>
     /\ UNCHANGED <<account_flow, delete_response>>

\* ExpireDue(now) on timer t: every due entry is classified one final time,
\* its promise is set and the entry is removed.
ExpireDue(t) ==
  /\ Due(t) # {}
  /\ tasks_' = [tasks_ EXCEPT ![t] = Remove(@, Due(t))]
  /\ calls' = [c \in DOMAIN calls |->
                 IF \E id \in Due(t) : Owner(t, id) = c
                 THEN LET id == CHOOSE x \in Due(t) : Owner(t, x) = c
                          e == tasks_[t][id]
                      IN SetPromise(calls[c],
                                    FinalVerdict(e.accumulator,
                                                 e.op_data.successes_required,
                                                 e.expected_response_count))
                 ELSE calls[c]]
  /\ UNCHANGED <<revision, now, new_task_id_, sends, responses>>
  /\ UNCHANGED <<account_flow, delete_response>>

(***************************************************************************)
(* The free function CreateAccount(maid, anmaid, client_nfs) of            *)
(* maid_node_nfs.cc, the account-creation client flow.  It is a function   *)
(* of the future MaidNodeNfs::CreateAccount returned: whether the promise  *)
(* is set within the 10 seconds of wait_for, and to what.                  *)
(***************************************************************************)
\* The exceptions a promise is set to that are a maidsafe_error.
MaidsafeErrors == {"account_already_exists", "unique_data_clash", "unknown",
                   "timed_out"}

\* What the promise is set to: the value, a maidsafe_error or an exception
\* of another type.
FutureOutcomes == {"Success", "broken_promise"} \cup MaidsafeErrors

Futures ==
  {f \in [outcome : FutureOutcomes \cup {"none"}, within_wait : BOOLEAN] :
     f.within_wait => f.outcome # "none"}

\* future.wait_for(boost::chrono::seconds(10)).
WaitFor(future) == IF future.within_wait THEN "ready" ELSE "timeout"

\* future.has_exception().
HasException(future) == future.outcome # "Success"

\* A flow that calls future.get() outside any try block.
GetUncaught(outcome) == [printed |-> <<>>, thrown |-> outcome]

\* The try block around future.get(): what it prints and what leaves it.
GetAndCatch(outcome) ==
  IF outcome \in MaidsafeErrors
  THEN IF outcome \in {"account_already_exists", "unique_data_clash"}
       THEN [printed |-> <<"account already existed">>, thrown |-> "none"]
       ELSE [printed |-> <<>>, thrown |-> "none"]
  ELSE [printed |-> <<"caught an unknown exception">>, thrown |-> "none"]

CreateAccountFlow(future) ==
  [pc |-> "wait_for", future |-> future, status |-> "none",
   printed |-> <<>>, thrown |-> "none"]

\* wait_for and the throw on a timeout status.
CreateAccountWaitFor ==
  /\ account_flow.pc = "wait_for"
  /\ account_flow' =
       IF WaitFor(account_flow.future) = "timeout"
       THEN [account_flow EXCEPT
               !.status = "timeout",
               !.printed = Append(@, "can't create account"),
               !.thrown = "failed_to_handle_request",
               !.pc = "thrown"]
       ELSE [account_flow EXCEPT !.status = "ready", !.pc = "has_exception"]
  /\ UNCHANGED <<revision, now, new_task_id_, tasks_, calls, sends, responses>>
  /\ UNCHANGED delete_response

\* if (future.has_exception()) { try { future.get(); } catch ... return; }
CreateAccountHasException ==
  /\ account_flow.pc = "has_exception"
  /\ account_flow' =
       IF HasException(account_flow.future)
       THEN LET r == GetAndCatch(account_flow.future.outcome) IN
            [account_flow EXCEPT
               !.printed = @ \o r.printed,
               !.thrown = r.thrown,
               !.pc = IF r.thrown = "none" THEN "returned" ELSE "thrown"]
       ELSE [account_flow EXCEPT !.pc = "sleep_for"]
  /\ UNCHANGED <<revision, now, new_task_id_, tasks_, calls, sends, responses>>
  /\ UNCHANGED delete_response

\* The sleep for the syncs and the closing message.
CreateAccountSleepFor ==
  /\ account_flow.pc = "sleep_for"
  /\ account_flow' = [account_flow EXCEPT
                        !.printed = Append(@, "Account created for maid"),
                        !.pc = "returned"]
  /\ UNCHANGED <<revision, now, new_task_id_, tasks_, calls, sends, responses>>
  /\ UNCHANGED delete_response

(***************************************************************************)
(* HandleDeleteResponse of utils.h.                                        *)
(***************************************************************************)
\* The codes a ReturnCode carries.
ReturnCodes == {"success", "failed_to_handle_request"}

\* The serialised form of a ReturnCode.
Serialise(code) == <<"ReturnCode", code>>

\* What arrives as a serialised response: a serialised ReturnCode, the
\* empty string, or bytes that are no ReturnCode.
SerialisedMessages ==
  {Serialise(code) : code \in ReturnCodes} \cup {<<>>, <<"garbage">>}

\* ReturnCode(ReturnCode::serialised_type(NonEmptyString(serialised))): the
\* code, or "throws" when the string is empty or does not parse.
Parse(serialised) ==
  IF serialised = <<>> THEN "throws"
  ELSE IF Len(serialised) = 2 /\ serialised[1] = "ReturnCode"
            /\ serialised[2] \in ReturnCodes
       THEN serialised[2]
       ELSE "throws"

\* A loop body without the catch clause's ++failure_count.
CountedDecodedOnly(serialised) ==
  IF Parse(serialised) = "success" THEN "success"
  ELSE IF Parse(serialised) = "throws" THEN "neither"
  ELSE "failure"

\* The body of the for loop: which counter one response increments.
Counted(serialised) ==
  IF Parse(serialised) = "success" THEN "success" ELSE "failure"

\* on_error_functor(std::move(original_data_message)).
OnError(d) ==
  [d EXCEPT !.on_error_calls = @ + 1,
            !.moved_from_handed = IF d.moved_from THEN @ + 1 ELSE @,
            !.moved_from = TRUE]

HandleDeleteResponse(serialised_messages) ==
  [pc |-> "empty", serialised_messages |-> serialised_messages, next |-> 1,
   success_count |-> 0, failure_count |-> 0, on_error_calls |-> 0,
   moved_from |-> FALSE, moved_from_handed |-> 0]

\* if (serialised_messages.empty()) on_error_functor(...).
HandleDeleteResponseEmpty ==
  /\ delete_response.pc = "empty"
  /\ delete_response' =
       IF delete_response.serialised_messages = <<>>
       THEN [OnError(delete_response) EXCEPT !.pc = "loop"]
       ELSE [delete_response EXCEPT !.pc = "loop"]
  /\ UNCHANGED <<revision, now, new_task_id_, tasks_, calls, sends, responses>>
  /\ UNCHANGED account_flow

\* One iteration of the for loop over serialised_messages.
HandleDeleteResponseLoop ==
  /\ delete_response.pc = "loop"
  /\ delete_response.next <= Len(delete_response.serialised_messages)
  /\ LET counted ==
           Counted(delete_response.serialised_messages[delete_response.next])
     IN delete_response' =
          [delete_response EXCEPT
             !.success_count = IF counted = "success" THEN @ + 1 ELSE @,
             !.failure_count = IF counted = "failure" THEN @ + 1 ELSE @,
             !.next = @ + 1]
  /\ UNCHANGED <<revision, now, new_task_id_, tasks_, calls, sends, responses>>
  /\ UNCHANGED account_flow

\* if (success_count == 0) on_error_functor(...), then the function returns.
HandleDeleteResponseVerdict ==
  /\ delete_response.pc = "loop"
  /\ delete_response.next > Len(delete_response.serialised_messages)
  /\ delete_response' =
       IF delete_response.success_count = 0
       THEN [OnError(delete_response) EXCEPT !.pc = "returned"]
       ELSE [delete_response EXCEPT !.pc = "returned"]
  /\ UNCHANGED <<revision, now, new_task_id_, tasks_, calls, sends, responses>>
  /\ UNCHANGED account_flow

(***************************************************************************)
(* The specification.                                                      *)
(***************************************************************************)
Init ==
  /\ revision \in Revisions
  /\ now = 0
  /\ new_task_id_ = [t \in Timers |-> 0]
  /\ tasks_ = [t \in Timers |-> EmptyTable]
  /\ calls = <<>>
  /\ sends = EmptyBag
  /\ responses = 0
  /\ account_flow = [pc |-> "not called"]
  /\ delete_response = [pc |-> "not called"]

Next ==
  \/ \E op \in QuorumOps : Begin(op)
  \/ \E c \in 1..MaxCalls : AddTask(c)
  \/ \E c \in 1..MaxCalls : Send(c)
  \/ \E op \in FireAndForgetOps : FireAndForget(op)
  \/ \E kind \in ResponseKinds, id \in TaskIds, payload \in Payloads :
        HandleMessage(kind, id, payload)
  \/ Tick
  \/ \E t \in Timers : ExpireDue(t)

Spec == Init /\ [][Next]_vars

\* A caller of the tables whose task ids may collide: the operation is begun
\* with any id, in use or not, instead of the next value of a counter.
BeginColliding(op) ==
  /\ op \in QuorumOps \cap Implemented(revision)
  /\ Len(calls) < MaxCalls
  /\ \E id \in TaskIds, timeout \in 1..MaxTimeout :
       calls' = Append(calls, NewCall(op, id, timeout))
  /\ UNCHANGED <<revision, now, new_task_id_, tasks_, sends, responses>>
  /\ UNCHANGED <<account_flow, delete_response>>

\* RegisterPmid is the operation whose id comes from the counter of another
\* timer than the one it registers in.
NextColliding ==
  \/ BeginColliding("RegisterPmid")
  \/ \E c \in 1..MaxCalls : AddTask(c)
  \/ \E c \in 1..MaxCalls : Send(c)
  \/ \E kind \in ResponseKinds, id \in TaskIds, payload \in Payloads :
        HandleMessage(kind, id, payload)
  \/ Tick
  \/ \E t \in Timers : ExpireDue(t)

\* register_pmid_timer_ under task ids that are not guaranteed fresh.
InitColliding == Init /\ revision = "later"

CollisionSpec == InitColliding /\ [][NextColliding]_vars

\* The free functions on every future and on every list of at most
\* MaxMessages serialised responses, beside an idle MaidNodeNfs.
InitFree ==
  /\ revision = "later"
  /\ now = 0
  /\ new_task_id_ = [t \in Timers |-> 0]
  /\ tasks_ = [t \in Timers |-> EmptyTable]
  /\ calls = <<>>
  /\ sends = EmptyBag
  /\ responses = 0
  /\ \E future \in Futures : account_flow = CreateAccountFlow(future)
  /\ \E n \in 0..MaxMessages :
       \E serialised_messages \in [1..n -> SerialisedMessages] :
          delete_response = HandleDeleteResponse(serialised_messages)

NextFree ==
  \/ CreateAccountWaitFor
  \/ CreateAccountHasException
  \/ CreateAccountSleepFor
  \/ HandleDeleteResponseEmpty
  \/ HandleDeleteResponseLoop
  \/ HandleDeleteResponseVerdict

FreeSpec == InitFree /\ [][NextFree]_vars

\* The scheduling of a running client: the steady clock advances, and the
\* recurring sweep of every timer runs while the timer holds a due entry.
FairSpec ==
  /\ Init
  /\ [][Next]_vars
  /\ WF_vars(Tick)
  /\ \A t \in Timers : WF_vars(ExpireDue(t))

(***************************************************************************)
(* Vocabulary of the properties.                                           *)
(***************************************************************************)
\* Call c is a quorum-correlated call whose AddTask has returned.
Registered(c) ==
  /\ calls[c].op \in QuorumOps
  /\ calls[c].pc \in {"Send", "done", "TransportUnavailable"}

\* The entry of call c is in the table it was registered in.
Live(c) ==
  /\ Registered(c)
  /\ calls[c].task_id \in DOMAIN tasks_[TaskTimer(calls[c].op)]
  /\ Owner(TaskTimer(calls[c].op), calls[c].task_id) = c

\* The deadline the caller asked for.
CallDeadline(c) == calls[c].registered + calls[c].timeout

Resolved(c) == calls[c].resolutions >= 1

\* All successes and failures delivered for call c, late ones included.
SuccessesDelivered(c) ==
  Successes(calls[c].accumulated) + calls[c].late["success"]

FailuresDelivered(c) ==
  Failures(calls[c].accumulated) + calls[c].late["unknown"]
  + calls[c].late["account_already_exists"]

(***************************************************************************)
(* C1  Resolve-once.  Under every interleaving of deliveries and expiry    *)
(* sweeps the promise of a registered call is set at most once, a call     *)
(* that is not set is still in its table, and a sweep that runs at or      *)
(* after the deadline of a call leaves its promise set exactly once.       *)
(***************************************************************************)
ResolveOnceStep ==
  /\ \A c \in DOMAIN calls' :
       /\ calls'[c].resolutions <= 1
       /\ Registered(c)' => (calls'[c].resolutions = 0 <=> Live(c)')
  /\ \A t \in Timers : ExpireDue(t) =>
       \A c \in DOMAIN calls :
         (Registered(c) /\ TaskTimer(calls[c].op) = t /\ CallDeadline(c) <= now)
           => calls'[c].resolutions = 1

ResolveOnce == [][ResolveOnceStep]_vars

\* A call resolved by its responses, reached by a later response and by its
\* deadline.
ResolveOnceWitness ==
  \E c \in DOMAIN calls :
     /\ calls[c].resolutions = 1
     /\ calls[c].outcome = "Success"
     /\ Late(c) >= 1
     /\ CallDeadline(c) <= now

(***************************************************************************)
(* C2  Quorum success.  With T the success threshold and N the peer-group  *)
(* size: once T successes and at most N - T failures have been delivered   *)
(* before the deadline, the promise is set to Success exactly once, at     *)
(* the delivery of the T-th success.                                       *)
(***************************************************************************)
QuorumSuccess ==
  \A c \in DOMAIN calls :
     (/\ Registered(c)
      /\ now < CallDeadline(c)
      /\ SuccessesDelivered(c) >= SuccessesRequired(calls[c].op)
      /\ FailuresDelivered(c) <= group_size - SuccessesRequired(calls[c].op))
       => /\ calls[c].outcome = "Success"
          /\ calls[c].resolutions = 1
          /\ Successes(calls[c].accumulated) = SuccessesRequired(calls[c].op)
          /\ calls[c].accumulated[Len(calls[c].accumulated)] = "success"

(***************************************************************************)
(* C3  Timeout.  A call whose deadline elapses while its verdict is        *)
(* Pending is rejected with timed_out, and only then: in particular a      *)
(* call that received no response ends in timed_out, and no call is        *)
(* timed out before the deadline its caller asked for.                     *)
(***************************************************************************)
TimeoutOnExpiry ==
  \A c \in DOMAIN calls :
     (Registered(c) /\ Resolved(c)) =>
       /\ calls[c].accumulated = <<>> => calls[c].outcome = "timed_out"
       /\ Classify(calls[c].accumulated, SuccessesRequired(calls[c].op),
                   ExpectedCount(calls[c].op)) = "Pending"
            => calls[c].outcome = "timed_out"
       /\ calls[c].outcome = "timed_out" => CallDeadline(c) <= now

\* A call timed out with no response at all, and one timed out with some.
TimeoutOnExpiryWitness ==
  /\ \E c \in DOMAIN calls :
        calls[c].outcome = "timed_out" /\ calls[c].accumulated = <<>>
  /\ \E c \in DOMAIN calls :
        calls[c].outcome = "timed_out" /\ calls[c].accumulated # <<>>

Failed(c) == calls[c].outcome \in {"unknown", "account_already_exists"}

\* The promise of call c is as it was.
HandleUnchanged(c) ==
  /\ calls'[c].outcome = calls[c].outcome
  /\ calls'[c].resolutions = calls[c].resolutions

(***************************************************************************)
(* C4  Removal on resolution.  In the step that sets the promise of a      *)
(* call its entry leaves the table, no entry wired to that promise is      *)
(* ever present afterwards, and no later step changes the promise.  Every  *)
(* live entry carries the threshold group_size - 1, and a CreateAccount    *)
(* entry the expected response count group_size * 2.                       *)
(***************************************************************************)
RemovedOnResolveStep ==
  /\ \A c \in DOMAIN calls' :
       calls'[c].resolutions >= 1 =>
         /\ ~Live(c)'
         /\ \A t \in Timers : \A id \in DOMAIN tasks_'[t] :
               tasks_'[t][id].op_data.call # c
  /\ \A c \in DOMAIN calls :
       calls[c].resolutions >= 1 => HandleUnchanged(c)
  /\ \A c \in DOMAIN calls' :
       Live(c)' =>
         LET e == tasks_'[TaskTimer(calls'[c].op)][calls'[c].task_id] IN
         /\ e.op_data.successes_required = group_size - 1
         /\ calls'[c].op = "CreateAccount" =>
              e.expected_response_count = group_size * 2

Unreachable(acc, op) ==
  /\ Successes(acc) < SuccessesRequired(op)
  /\ Successes(acc) + (ExpectedCount(op) - Len(acc)) < SuccessesRequired(op)

EarlyFailure ==
  \A c \in DOMAIN calls :
     Registered(c) =>
       /\ Unreachable(calls[c].accumulated, calls[c].op) =>
            /\ Failed(c)
            /\ calls[c].resolutions = 1
            /\ ~Unreachable(SubSeq(calls[c].accumulated, 1,
                                   Len(calls[c].accumulated) - 1), calls[c].op)
       /\ Failed(c) => Unreachable(calls[c].accumulated, calls[c].op)

\* A CreateAccount call rejected before its deadline, and a RegisterPmid or
\* GetPmidHealth call rejected after a success.
EarlyFailureWitness ==
  \E c \in DOMAIN calls :
     /\ Failed(c)
     /\ now < CallDeadline(c)
     /\ \/ calls[c].op = "CreateAccount"
        \/ Successes(calls[c].accumulated) >= 1

(***************************************************************************)
(* C6  Error specificity.  A call rejected because its threshold became    *)
(* unreachable, among whose collected responses are a generic failure and  *)
(* the specific business error, carries the specific error, whichever of   *)
(* the two arrived first.                                                  *)
(***************************************************************************)
Collected(c, payload) ==
  \E i \in 1..Len(calls[c].accumulated) : calls[c].accumulated[i] = payload

DeliveredCount(c, payload) ==
  Cardinality({i \in 1..Len(calls[c].accumulated) :
                 calls[c].accumulated[i] = payload})
  + calls[c].late[payload]

OrderIndependence ==
  \A c1, c2 \in DOMAIN calls :
     (/\ Registered(c1) /\ Registered(c2)
      /\ calls[c1].op = calls[c2].op
      /\ calls[c1].timeout = calls[c2].timeout
      /\ now < CallDeadline(c1) /\ now < CallDeadline(c2)
      /\ Resolved(c1) /\ Resolved(c2)
      /\ \A p \in Payloads : DeliveredCount(c1, p) = DeliveredCount(c2, p))
       => calls[c1].outcome = calls[c2].outcome

(***************************************************************************)
(* C8  Late or unknown delivery.  A step in which a response reaches a     *)
(* call whose entry is gone is the handling of a response whose id is not  *)
(* in the table of its kind; it changes no table, sets or changes no       *)
(* promise, fails no call and leaves the id absent.                        *)
(***************************************************************************)
LateDeliveryStep ==
  (\E c \in DOMAIN calls : Late(c)' # Late(c))
    => /\ \E kind \in ResponseKinds, id \in TaskIds, payload \in Payloads :
             /\ id \notin DOMAIN tasks_[ResponseTimer(kind)]
             /\ HandleMessage(kind, id, payload)
       /\ tasks_' = tasks_
       /\ DOMAIN calls' = DOMAIN calls
       /\ \A c \in DOMAIN calls :
             /\ HandleUnchanged(c)
             /\ calls'[c].pc = calls[c].pc
             /\ calls'[c].accumulated = calls[c].accumulated

LateDeliveryNoOp == [][LateDeliveryStep]_vars

\* A response reached a call after its entry had expired, and another one
\* a call after its entry had been resolved.
LateDeliveryNoOpWitness ==
  /\ \E c \in DOMAIN calls : calls[c].outcome = "timed_out" /\ Late(c) >= 1
  /\ \E c \in DOMAIN calls : calls[c].outcome = "Success" /\ Late(c) >= 1

(***************************************************************************)
(* C9  Fresh identifiers.  The id a call is about to register is not the   *)
(* id of a live entry of the table it registers in, and no AddTask has     *)
(* thrown, in either revision.                                             *)
(***************************************************************************)
FreshTaskId ==
  \A c \in DOMAIN calls :
     /\ calls[c].pc # "threw"
     /\ calls[c].pc = "AddTask" =>
          calls[c].task_id \notin DOMAIN tasks_[TaskTimer(calls[c].op)]

\* RegisterPmid is about to register an id drawn from
\* create_account_timer_ while register_pmid_timer_ holds a live entry.
FreshTaskIdWitness ==
  \E c \in DOMAIN calls :
     /\ calls[c].op = "RegisterPmid"
     /\ calls[c].pc = "AddTask"
     /\ DOMAIN tasks_["register_pmid_timer_"] # {}

(***************************************************************************)
(* C10  Bounded accumulator.  No pending entry holds more payloads than    *)
(* the peer-group size.                                                    *)
(***************************************************************************)
AccumulatorBounded ==
  \A t \in Timers : \A id \in DOMAIN tasks_[t] :
     Len(tasks_[t][id].accumulator) <= group_size

(***************************************************************************)
(* C11  Bounded leak.  Every entry of a table belongs to the call that     *)
(* registered it, and under a fair clock and a fair sweep the entry of     *)
(* every call is eventually out of its table, whether or not a response    *)
(* ever arrives or the request was even dispatched; again and again no     *)
(* table holds an entry whose deadline has passed.                         *)
(***************************************************************************)
NoOverdueEntry == \A t \in Timers : Due(t) = {}

\* Every entry of every table is the entry of the call that registered it.
EntriesOwned ==
  \A t \in Timers : \A id \in DOMAIN tasks_[t] :
     /\ Owner(t, id) \in DOMAIN calls
     /\ Live(Owner(t, id))
     /\ TaskTimer(calls[Owner(t, id)].op) = t
     /\ calls[Owner(t, id)].task_id = id

BoundedLeak ==
  /\ []EntriesOwned
  /\ \A c \in 1..MaxCalls :
        (c \in DOMAIN calls /\ Live(c)) ~> (c \in DOMAIN calls /\ ~Live(c))
  /\ []<>NoOverdueEntry

\* An entry that no response ever reached, whose request was never
\* dispatched, has been reclaimed by the sweep and no table holds an
\* overdue entry.
BoundedLeakWitness ==
  /\ NoOverdueEntry
  /\ \E c \in DOMAIN calls :
        /\ calls[c].pc = "Send"
        /\ calls[c].accumulated = <<>>
        /\ calls[c].outcome = "timed_out"
        /\ ~Live(c)

(***************************************************************************)
(* C12  Fire-and-forget.  The step in which RemoveAccount or               *)
(* UnregisterPmid is called makes exactly one dispatcher call, which       *)
(* hands at most that one request to the substrate, draws no task id,      *)
(* leaves every table and every other call as they were and has returned   *)
(* when the step ends; such a call never owns an entry and its record      *)
(* collects no response and no verdict.                                    *)
(***************************************************************************)
FireAndForgetStep ==
  /\ (Len(calls') = Len(calls) + 1
       /\ calls'[Len(calls')].op \in FireAndForgetOps)
      => LET call == calls'[Len(calls')] IN
         /\ call.dispatched = 1
         /\ call.pc \in {"done", "TransportUnavailable"}
         /\ call.pc = "done" =>
              sends' = sends (+) SetToBag({Request(call.op, 0)})
         /\ call.pc = "TransportUnavailable" => sends' = sends
         /\ call.task_id = 0
         /\ new_task_id_' = new_task_id_
         /\ tasks_' = tasks_
         /\ \A c \in DOMAIN calls : calls'[c] = calls[c]
  /\ \A c \in DOMAIN calls' :
        calls'[c].op \in FireAndForgetOps =>
          /\ \A t \in Timers : \A id \in DOMAIN tasks_'[t] :
                tasks_'[t][id].op_data.call # c
          /\ calls'[c].dispatched = 1
          /\ calls'[c].outcome = "none"
          /\ calls'[c].accumulated = <<>>
          /\ Late(c)' = 0

FireAndForgetFrame == [][FireAndForgetStep]_vars

\* RemoveAccount or UnregisterPmid was called, and its request accepted,
\* while a quorum-correlated call had its entry in a table.
FireAndForgetFrameWitness ==
  /\ Len(calls) = 2
  /\ Live(1)
  /\ calls[2].op \in FireAndForgetOps
  /\ calls[2].pc = "done"
  /\ BagIn(Request(calls[2].op, 0), sends)

(***************************************************************************)
(* C13  Duplicate registration.  An AddTask whose id is already in its     *)
(* table throws, and only such an AddTask does; the step leaves every      *)
(* table (the existing entry with its accumulator, deadline, expected      *)
(* count and promise included), every other call and the dispatcher as     *)
(* they were, and the call that threw never dispatches or resolves.        *)
(***************************************************************************)
DuplicateRegisterStep ==
  /\ \A c \in DOMAIN calls :
        (calls[c].pc = "AddTask" /\ calls'[c].pc # "AddTask") =>
          IF calls[c].task_id \in DOMAIN tasks_[TaskTimer(calls[c].op)]
          THEN /\ calls'[c] = [calls[c] EXCEPT !.pc = "threw"]
               /\ tasks_' = tasks_
               /\ \A d \in DOMAIN calls \ {c} : calls'[d] = calls[d]
               /\ sends' = sends
               /\ new_task_id_' = new_task_id_
          ELSE calls'[c].pc = "Send"
  /\ \A c \in DOMAIN calls' :
        calls'[c].pc = "threw" =>
          /\ calls'[c].dispatched = 0
          /\ calls'[c].resolutions = 0
          /\ c \in DOMAIN calls
          /\ calls[c].pc \in {"AddTask", "threw"}

DuplicateRegister == [][DuplicateRegisterStep]_vars

\* An AddTask threw on the id of a live entry that had already collected a
\* response, and that entry went on to resolve its own call.
DuplicateRegisterWitness ==
  \E c, d \in DOMAIN calls :
     /\ calls[c].pc = "threw"
     /\ d < c
     /\ calls[d].op = calls[c].op
     /\ calls[d].task_id = calls[c].task_id
     /\ calls[d].accumulated # <<>>
     /\ calls[d].outcome = "Success"

(***************************************************************************)
(* C14  Entry lifecycle.  An entry leaves its table only in a step that    *)
(* resolves its call for the first time: either the delivery of a          *)
(* response on which the aggregator reaches a verdict, or a sweep at or    *)
(* after its deadline, which times the call out.  An id enters a table     *)
(* only if no call was ever registered under it in that table, so every    *)
(* entry is registered once, removed once and never resurrected.           *)
(***************************************************************************)
EntryLifecycleStep ==
  \A t \in Timers : \A id \in TaskIds :
     /\ (id \in DOMAIN tasks_[t] /\ id \notin DOMAIN tasks_'[t]) =>
          LET c == Owner(t, id)
              e == tasks_[t][id]
          IN /\ calls[c].resolutions = 0
             /\ calls'[c].resolutions = 1
             /\ \/ /\ Len(calls'[c].accumulated) = Len(calls[c].accumulated) + 1
                   /\ calls'[c].outcome \in
                        {"Success", "unknown", "account_already_exists"}
                   /\ calls'[c].outcome =
                        Classify(calls'[c].accumulated,
                                 e.op_data.successes_required,
                                 e.expected_response_count)
                   /\ now' = now
                \/ /\ calls'[c].accumulated = calls[c].accumulated
                   /\ e.deadline <= now
                   /\ calls'[c].outcome = "timed_out"
     /\ (id \notin DOMAIN tasks_[t] /\ id \in DOMAIN tasks_'[t]) =>
          /\ RegisteredAs(t, id) = {}
          /\ Cardinality(RegisteredAs(t, id)') = 1
     /\ Cardinality(RegisteredAs(t, id)') <= 1

EntryLifecycle == [][EntryLifecycleStep]_vars

\* Of two GetPmidHealth calls one left pmid_health_timer_ by its quorum
\* and the other by its deadline.
EntryLifecycleWitness ==
  \E c, d \in DOMAIN calls :
     /\ calls[c].op = "GetPmidHealth" /\ calls[d].op = "GetPmidHealth"
     /\ calls[c].task_id # calls[d].task_id
     /\ calls[c].outcome = "Success" /\ ~Live(c)
     /\ calls[d].outcome = "timed_out" /\ ~Live(d)

(***************************************************************************)
(* C15  Inbound demultiplexing.  Whenever a payload is recorded against a   *)
(* call, every handling of a response of some kind K under the id of the   *)
(* call that the step can be is one where K is the kind that answers the   *)
(* operation of the call: it appends the payload to the entry under that   *)
(* id in the timer of kind K, or removes that entry on a verdict, and it   *)
(* leaves every other timer, every other entry of that timer and every     *)
(* call that is not a call of that operation under that id as they were,   *)
(* also when another timer holds an entry with the same numeric id.        *)
(***************************************************************************)
\* The step recorded the payload against call c.
Recorded(c, payload) ==
  \/ calls'[c].accumulated = Append(calls[c].accumulated, payload)
  \/ calls'[c].late[payload] = calls[c].late[payload] + 1

DemultiplexStep ==
  \A c \in DOMAIN calls : \A payload \in Payloads :
    (Len(calls') = Len(calls) /\ Recorded(c, payload)) =>
      \A kind \in ResponseKinds :
       HandleMessage(kind, calls[c].task_id, payload) =>
         LET t == ResponseTimer(kind)
             id == calls[c].task_id
         IN
         /\ \A u \in Timers \ {t} : tasks_'[u] = tasks_[u]
         /\ \A x \in DOMAIN tasks_[t] \ {id} :
               x \in DOMAIN tasks_'[t] /\ tasks_'[t][x] = tasks_[t][x]
         /\ id \in DOMAIN tasks_[t] =>
               \/ id \notin DOMAIN tasks_'[t]
               \/ tasks_'[t][id].accumulator =
                    Append(tasks_[t][id].accumulator, payload)
         /\ id \notin DOMAIN tasks_[t] => id \notin DOMAIN tasks_'[t]
         /\ \A d \in DOMAIN calls :
               \/ calls'[d] = calls[d]
               \/ /\ calls[d].op \in QuorumOps
                  /\ ResponseTo(calls[d].op) = kind
                  /\ calls[d].task_id = id
         /\ ResponseTo(calls[c].op) = kind

Demultiplexed == [][DemultiplexStep]_vars

\* create_account_timer_ and pmid_health_timer_ each hold an entry under
\* the same numeric id, both requests are out, and only the GetPmidHealth
\* entry has collected a response.
DemultiplexedWitness ==
  \E c, d \in DOMAIN calls :
     /\ calls[c].op = "CreateAccount" /\ calls[d].op = "GetPmidHealth"
     /\ calls[c].task_id = calls[d].task_id
     /\ Live(c) /\ Live(d)
     /\ calls[c].pc = "done" /\ calls[d].pc = "done"
     /\ calls[c].accumulated = <<>>
     /\ calls[d].accumulated # <<>>

(***************************************************************************)
(* C16  Register before dispatch.  Every request of a quorum-correlated    *)
(* operation that the substrate holds was dispatched once, by a call whose *)
(* AddTask had returned; a call that has not reached its dispatcher call   *)
(* has dispatched nothing and no response was recorded against it; a call  *)
(* past it has made exactly one dispatcher call; and a response finds the  *)
(* id of its call absent only after the call was resolved.                 *)
(***************************************************************************)
RegisterBeforeDispatch ==
  /\ \A m \in BagToSet(sends) :
        m.request \in QuorumOps =>
          /\ CopiesIn(m, sends) = 1
          /\ \E c \in DOMAIN calls :
                /\ calls[c].op = m.request
                /\ calls[c].task_id = m.task_id
                /\ Registered(c)
                /\ calls[c].pc = "done"
  /\ \A c \in DOMAIN calls :
        calls[c].op \in QuorumOps =>
          /\ calls[c].pc \in {"AddTask", "threw", "Send"} =>
               /\ calls[c].dispatched = 0
               /\ ~BagIn(Request(calls[c].op, calls[c].task_id), sends)
          /\ calls[c].pc \in {"done", "TransportUnavailable"} =>
               calls[c].dispatched = 1
          /\ (calls[c].accumulated # <<>> \/ Late(c) > 0) =>
               calls[c].pc = "done"
          /\ Late(c) > 0 => calls[c].resolutions = 1

\* One call is registered and not yet dispatched while another, dispatched,
\* has a response in its entry.
RegisterBeforeDispatchWitness ==
  \E c, d \in DOMAIN calls :
     /\ calls[c].pc = "Send" /\ Live(c)
     /\ calls[d].pc = "done" /\ Live(d)
     /\ calls[d].accumulated # <<>>

(***************************************************************************)
(* C17  Transport failure.  TransportUnavailable leaves the operation in   *)
(* the step of its one dispatcher call: nothing reaches the substrate, no  *)
(* table and no other call changes.  Afterwards the call stays failed, it  *)
(* never dispatches again, no response is recorded against it and its      *)
(* entry keeps the deadline the caller asked for until the sweep removes   *)
(* it.  A step that sets a promise (to a success, a failure carried by a   *)
(* response, or a timeout) never moves a call in or out of its operation.  *)
(***************************************************************************)
TransportFailureStep ==
  /\ \A c \in DOMAIN calls' :
        (/\ calls'[c].pc = "TransportUnavailable"
         /\ c \in DOMAIN calls => calls[c].pc # "TransportUnavailable") =>
          /\ calls'[c].dispatched = 1
          /\ sends' = sends
          /\ tasks_' = tasks_
          /\ now' = now
          /\ \A d \in DOMAIN calls \ {c} : calls'[d] = calls[d]
          /\ c \in DOMAIN calls =>
                /\ calls[c].pc = "Send"
                /\ calls'[c] = [calls[c] EXCEPT !.pc = "TransportUnavailable",
                                                !.dispatched = 1]
  /\ \A c \in DOMAIN calls :
        calls[c].pc = "TransportUnavailable" =>
          /\ calls'[c].pc = "TransportUnavailable"
          /\ calls'[c].dispatched = 1
          /\ calls'[c].accumulated = <<>>
          /\ Late(c)' = 0
          /\ calls[c].op \in QuorumOps =>
                /\ ~BagIn(Request(calls[c].op, calls[c].task_id), sends')
                /\ calls'[c].outcome \in {"none", "timed_out"}
                /\ Live(c)' =>
                     tasks_'[TaskTimer(calls[c].op)][calls[c].task_id].deadline
                       = CallDeadline(c)
                /\ (Live(c) /\ ~Live(c)') => CallDeadline(c) <= now
  /\ \A c \in DOMAIN calls :
        calls'[c].outcome # calls[c].outcome =>
          /\ calls'[c].pc = calls[c].pc
          /\ calls'[c].dispatched = calls[c].dispatched
          /\ calls[c].outcome = "none"
          /\ calls'[c].outcome \in {"Success", "unknown",
                                    "account_already_exists", "timed_out"}

TransportFailure == [][TransportFailureStep]_vars

\* The dispatcher refused the request of one call, whose entry was later
\* swept at its deadline, and another call was rejected through its promise
\* with the error its responses carried.
TransportFailureWitness ==
  \E c, d \in DOMAIN calls :
     /\ calls[c].op \in QuorumOps
     /\ calls[c].pc = "TransportUnavailable"
     /\ calls[c].outcome = "timed_out"
     /\ calls[d].pc = "done"
     /\ calls[d].outcome = "account_already_exists"

(***************************************************************************)
(* C18  Account-creation client flow.  The flow ends by throwing exactly   *)
(* when the promise was not set within its wait, and what it throws is     *)
(* failed_to_handle_request; when the promise was set in time to the       *)
(* exception account_already_exists or unique_data_clash the flow reports  *)
(* that the account already existed and returns without throwing.          *)
(***************************************************************************)
AlreadyExistsNonFatal ==
  /\ account_flow.thrown # "none" => account_flow.pc = "thrown"
  /\ account_flow.pc \in {"returned", "thrown"} =>
       /\ account_flow.pc = "thrown" <=> ~account_flow.future.within_wait
       /\ account_flow.pc = "thrown" =>
            account_flow.thrown = "failed_to_handle_request"
       /\ (/\ account_flow.future.within_wait
           /\ account_flow.future.outcome \in
                {"account_already_exists", "unique_data_clash"}) =>
            /\ account_flow.pc = "returned"
            /\ account_flow.thrown = "none"
            /\ account_flow.printed = <<"account already existed">>

\* The flow returned after the promise was rejected with unique_data_clash.
AlreadyExistsNonFatalWitness ==
  /\ account_flow.pc = "returned"
  /\ account_flow.future.within_wait
  /\ account_flow.future.outcome = "unique_data_clash"

(***************************************************************************)
(* C19  HandleDeleteResponse calls on_error_functor at most once, and      *)
(* never hands it a message that was already moved from.                   *)
(***************************************************************************)
OnErrorAtMostOnce ==
  /\ delete_response.on_error_calls <= 1
  /\ delete_response.moved_from_handed = 0

(***************************************************************************)
(* C20  Every response is classified once.  After each iteration           *)
(* success_count is the number of responses seen that decode to success    *)
(* and failure_count the number of all others, undecodable ones included;  *)
(* when the function has returned the two add up to the number of          *)
(* responses, and on_error_functor was called exactly if success_count is  *)
(* 0.                                                                      *)
(***************************************************************************)
EveryResponseCounted ==
  LET d == delete_response
      seen == 1..(d.next - 1)
  IN /\ d.next <= Len(d.serialised_messages) + 1
     /\ d.success_count =
          Cardinality({i \in seen : Parse(d.serialised_messages[i]) = "success"})
     /\ d.failure_count =
          Cardinality({i \in seen : Parse(d.serialised_messages[i]) # "success"})
     /\ d.pc = "returned" =>
          /\ d.success_count + d.failure_count = Len(d.serialised_messages)
          /\ d.on_error_calls >= 1 <=> d.success_count = 0

\* The function returned from a list that held a success, another code and
\* an undecodable response, without calling on_error_functor.
EveryResponseCountedWitness ==
  LET d == delete_response IN
  /\ d.pc = "returned"
  /\ \E i, j, k \in 1..Len(d.serialised_messages) :
       /\ Parse(d.serialised_messages[i]) = "success"
       /\ Parse(d.serialised_messages[j]) = "failed_to_handle_request"
       /\ Parse(d.serialised_messages[k]) = "throws"
  /\ d.success_count = 1
  /\ d.failure_count = 2
  /\ d.on_error_calls = 0

(***************************************************************************)
(* C21  Expiry sweep.  A step in which an entry leaves a timer without a   *)
(* response being handled is a sweep of that timer.  The ids it takes out, *)
(* which are the ids it returns, are exactly the ids of the entries whose  *)
(* deadline is at or before now; each of their calls, unresolved until     *)
(* then, is resolved once with the final verdict of what its entry had     *)
(* accumulated; and every entry whose deadline is later than now stays in  *)
(* the table as it was, with the same accumulator, and its call is not     *)
(* resolved.                                                               *)
(***************************************************************************)
\* The ids a step takes out of timer t.
Swept(t) == DOMAIN tasks_[t] \ DOMAIN tasks_'[t]

ExpireDueStep ==
  \A t \in Timers :
     (responses' = responses /\ Swept(t) # {}) =>
       /\ Swept(t) = {id \in DOMAIN tasks_[t] : tasks_[t][id].deadline <= now}
       /\ \A id \in Swept(t) :
            LET e == tasks_[t][id]
                c == e.op_data.call
            IN /\ calls[c].resolutions = 0
               /\ calls'[c].resolutions = 1
               /\ calls'[c].outcome =
                    FinalVerdict(e.accumulator, e.op_data.successes_required,
                                 e.expected_response_count)
               /\ calls'[c].accumulated = calls[c].accumulated
       /\ \A id \in DOMAIN tasks_[t] :
            tasks_[t][id].deadline > now =>
              /\ id \in DOMAIN tasks_'[t]
              /\ tasks_'[t][id] = tasks_[t][id]
              /\ calls'[tasks_[t][id].op_data.call] =
                   calls[tasks_[t][id].op_data.call]
       /\ DOMAIN tasks_'[t] \subseteq DOMAIN tasks_[t]

ExpireDueExact == [][ExpireDueStep]_vars

\* One call was timed out by the sweep of its timer and another call of the
\* same timer, registered when the first fell due and with its deadline
\* still ahead, is live and holds the response it collected.
ExpireDueExactWitness ==
  \E c, d \in DOMAIN calls :
     /\ c # d
     /\ calls[c].op \in QuorumOps /\ calls[d].op \in QuorumOps
     /\ TaskTimer(calls[c].op) = TaskTimer(calls[d].op)
     /\ calls[c].outcome = "timed_out" /\ ~Live(c)
     /\ Registered(d) /\ Live(d)
     /\ calls[d].registered = CallDeadline(c)
     /\ now < CallDeadline(d)
     /\ Len(calls[d].accumulated) = 1

(***************************************************************************)
(* C22  Delivery frame.  A step that appends a payload to what a call has  *)
(* collected is the delivery of that payload to the entry of the call,     *)
(* which is present.  The classifier runs once on the accumulator with     *)
(* that one payload appended: while it answers Pending the entry stays     *)
(* with that accumulator and the deadline, expected count and result       *)
(* handle it had, and the call is not resolved; on a verdict the entry is  *)
(* removed and the call is resolved once with it.  Every other entry of    *)
(* every timer keeps its accumulator, deadline, expected count and result  *)
(* handle, no entry appears, and no other call changes, whatever other     *)
(* calls have been registered and whatever they have been delivered.       *)
(***************************************************************************)
DeliverStep ==
  \A c \in DOMAIN calls : \A payload \in Payloads :
    (/\ Len(calls') = Len(calls)
     /\ calls'[c].accumulated = Append(calls[c].accumulated, payload)) =>
      LET t == TaskTimer(calls[c].op)
          id == calls[c].task_id
      IN
      /\ id \in DOMAIN tasks_[t]
      /\ tasks_[t][id].op_data.call = c
      /\ LET e == tasks_[t][id]
             acc == Append(e.accumulator, payload)
         IN IF Classify(acc, e.op_data.successes_required,
                        e.expected_response_count) = "Pending"
            THEN /\ id \in DOMAIN tasks_'[t]
                 /\ tasks_'[t][id] = [e EXCEPT !.accumulator = acc]
                 /\ calls'[c].resolutions = calls[c].resolutions
                 /\ calls'[c].outcome = calls[c].outcome
            ELSE /\ id \notin DOMAIN tasks_'[t]
                 /\ calls'[c].resolutions = calls[c].resolutions + 1
                 /\ calls'[c].outcome =
                      Classify(acc, e.op_data.successes_required,
                               e.expected_response_count)
      /\ \A u \in Timers :
           /\ DOMAIN tasks_'[u] \subseteq DOMAIN tasks_[u]
           /\ \A x \in DOMAIN tasks_[u] :
                (u # t \/ x # id) =>
                  /\ x \in DOMAIN tasks_'[u]
                  /\ tasks_'[u][x] = tasks_[u][x]
      /\ \A d \in DOMAIN calls \ {c} : calls'[d] = calls[d]

DeliverFrame == [][DeliverStep]_vars

\* Two GetPmidHealth calls hold entries under different ids in
\* pmid_health_timer_, both requests are out, and one entry has collected
\* a response while the other has collected none.
DeliverFrameWitness ==
  \E c, d \in DOMAIN calls :
     /\ calls[c].op = "GetPmidHealth" /\ calls[d].op = "GetPmidHealth"
     /\ calls[c].task_id # calls[d].task_id
     /\ Live(c) /\ Live(d)
     /\ calls[c].pc = "done" /\ calls[d].pc = "done"
     /\ Len(calls[c].accumulated) = 1
     /\ calls[d].accumulated = <<>>
     /\ tasks_["pmid_health_timer_"][calls[d].task_id].accumulator = <<>>

====
